---------------------------- MODULE Spec2Model ----------------------------
(***************************************************************************)
(* People-Also-Ask extractor: the credential pool (KeyManager), the page   *)
(* fetch with key rotation (fetchPAAPage), the breadth-first collector     *)
(* (getPAA) and the bulk wrapper (getBulkPAA) of src/paa.js, and the HTTP  *)
(* handlers of src/server.js and api/paa.js that call getPAA and then      *)
(* appendToSheet.                                                          *)
(*                                                                         *)
(* JavaScript strings are modelled as sequences of one-character strings,  *)
(* so that trim, toLowerCase, split and includes are computed and not      *)
(* assumed.  Array indices are 0-based as in the source; TLA+ sequences    *)
(* are 1-based, so keys[i] of the source is km.keys[i + 1] here.           *)
(***************************************************************************)
EXTENDS Integers, Sequences, FiniteSets, TLC

(***************************************************************************)
(* Bounds of the model.                                                    *)
(***************************************************************************)
MaxKeys == 3
\* most credentials listed in SERPAPI_KEY

MaxPage == 2
\* most raw items in one upstream page

MaxTarget == 3
\* largest maxQuestions passed to getPAA

MaxKeywords == 2
\* longest keyword array passed to getBulkPAA

MaxBulkTarget == 1
\* largest maxQuestions passed to getBulkPAA

MaxBulkPage == 1
\* most raw items in one upstream page while getBulkPAA runs

Procs == {1}
\* callers of the module (one process, one call chain)

Requests == {1, 2}
\* the calls one process can have in progress: the call chain of Procs, and
\* a second HTTP request the server accepts while the first one awaits

(***************************************************************************)
(* Strings.                                                                *)
(***************************************************************************)
Q0 == <<"Q", "0">>

Q1 == <<"Q", "1">>

q1 == <<"q", "1">>

Q2 == <<"Q", "2">>

Q3 == <<"Q", "3">>

EmptyString == <<>>

Blank == <<" ">>

PaddedQ1 == <<" ", "Q", "1", " ">>

MsgLimit == <<"R", "a", "t", "e", " ", "L", "i", "m", "i", "t">>

MsgQuota == <<"q", "u", "o", "t", "a">>

MsgExceeded == <<"E", "X", "C", "E", "E", "D", "E", "D">>

MsgInvalidKey == <<"I", "n", "v", "a", "l", "i", "d", " ", "k", "e", "y">>

Digit == <<"1", "2", "3", "4", "5", "6", "7", "8", "9">>

UpperCase == <<"A", "C", "D", "E", "I", "L", "Q", "R", "X">>

LowerCase == <<"a", "c", "d", "e", "i", "l", "q", "r", "x">>

IsWhitespace(c) ==
    c = " "

toLowerChar(c) ==
    IF \E i \in 1..Len(UpperCase) : UpperCase[i] = c
    THEN LowerCase[CHOOSE i \in 1..Len(UpperCase) : UpperCase[i] = c]
    ELSE c

toLowerCase(s) ==
    [i \in 1..Len(s) |-> toLowerChar(s[i])]

RECURSIVE trimStart(_)
trimStart(s) ==
    IF s # <<>> /\ IsWhitespace(Head(s)) THEN trimStart(Tail(s)) ELSE s

RECURSIVE trimEnd(_)
trimEnd(s) ==
    IF s # <<>> /\ IsWhitespace(s[Len(s)])
    THEN trimEnd(SubSeq(s, 1, Len(s) - 1))
    ELSE s

trim(s) ==
    trimEnd(trimStart(s))

includes(s, sub) ==
    \E i \in 1..(Len(s) - Len(sub) + 1) : SubSeq(s, i, i + Len(sub) - 1) = sub

RECURSIVE split(_, _)
split(s, sep) ==
    IF \E i \in 1..Len(s) : s[i] = sep
    THEN LET i == CHOOSE k \in 1..Len(s) :
                      s[k] = sep /\ \A j \in 1..(k - 1) : s[j] # sep
         IN  <<SubSeq(s, 1, i - 1)>> \o split(SubSeq(s, i + 1, Len(s)), sep)
    ELSE <<s>>


(***************************************************************************)
(* Inputs.                                                                 *)
(***************************************************************************)
KeyName(i) ==
    <<"k", Digit[i]>>

RECURSIVE RawEnv(_)
RawEnv(n) ==
    IF n = 0 THEN <<>>
    ELSE IF n = 1 THEN <<" ">> \o KeyName(1)
    ELSE RawEnv(n - 1) \o <<",", " ">> \o KeyName(n)
\* the text of SERPAPI_KEY listing n keys: " k1, k2, k3"

RawEnvs ==
    {RawEnv(n) : n \in 0..MaxKeys} \cup {<<" ", ",">>}

Undefined == [type |-> "undefined", str |-> <<>>]

NumberFive == [type |-> "number", str |-> <<>>]

Str(s) == [type |-> "string", str |-> s]

KeywordArgs ==
    {Undefined, NumberFive, Str(EmptyString), Str(Blank), Str(Q0), Str(PaddedQ1)}

BulkKeywordArgs ==
    {Str(Q0), Str(PaddedQ1), Str(EmptyString)}

Array(items) == [isArray |-> TRUE, items |-> items]

NotAnArray == [isArray |-> FALSE, items |-> <<>>]

Regions == {"us"}

TargetArgs ==
    -1..MaxTarget
\* the maxQuestions arguments of getPAA: negative, zero, positive

QuestionTexts ==
    {EmptyString, Q1, q1, Q2, Q3}

RawItems ==
    [question : QuestionTexts]

RECURSIVE SeqsUpTo(_, _)
SeqsUpTo(S, n) ==
    IF n = 0 THEN {<<>>}
    ELSE LET shorter == SeqsUpTo(S, n - 1)
         IN  shorter \cup {Append(s, x) : s \in shorter, x \in S}

Pages ==
    SeqsUpTo(RawItems, MaxPage)

BulkPages ==
    SeqsUpTo([question : {EmptyString, Q1, q1}], MaxBulkPage)

ErrorMessages ==
    {MsgLimit, MsgQuota, MsgExceeded, MsgInvalidKey}

OtherFailures ==
    {"http500", "network"}

(***************************************************************************)
(* KeyManager: the credential pool.                                        *)
(***************************************************************************)
Null == [keys |-> <<>>, index |-> -1, exhausted |-> {}]
\* the module-level keyManager before its construction

RECURSIVE filterNonEmpty(_)
filterNonEmpty(list) ==
    IF list = <<>> THEN <<>>
    ELSE IF Head(list) = <<>> THEN filterNonEmpty(Tail(list))
    ELSE <<Head(list)>> \o filterNonEmpty(Tail(list))

NewKeyManager(raw) ==
    LET parts == split(raw, ",")
        trimmed == [i \in 1..Len(parts) |-> trim(parts[i])]
    IN  [keys |-> filterNonEmpty(trimmed), index |-> 0, exhausted |-> {}]

\* mutant: a new pool for every call
getKeyManagerFresh(km, raw) ==
    NewKeyManager(raw)

getKeyManager(km, raw) ==
    IF km = Null THEN NewKeyManager(raw) ELSE km

totalKeys(km) ==
    Len(km.keys)

currentThrows(km) ==
    Len(km.keys) = 0

current(km) ==
    km.keys[km.index + 1]

\* mutant: this.exhausted.add(this.index) left out
rotateForgetsMark(km) ==
    LET n == Len(km.keys)
        steps == {i \in 0..(n - 1) : ((km.index + 1 + i) % n) \notin km.exhausted}
    IN  IF steps = {}
        THEN [km |-> km, ok |-> FALSE]
        ELSE LET i == CHOOSE k \in steps : \A j \in steps : k <= j
             IN  [km |-> [km EXCEPT !.index = (km.index + 1 + i) % n], ok |-> TRUE]

\* mutant: this.index = next left out
rotateKeepsIndex(km) ==
    LET n == Len(km.keys)
        marked == km.exhausted \cup {km.index}
        steps == {i \in 0..(n - 1) : ((km.index + 1 + i) % n) \notin marked}
    IN  [km |-> [km EXCEPT !.exhausted = marked], ok |-> steps # {}]

\* mutant: a failing rotate() goes back to the first index
rotateResetsOnFailure(km) ==
    LET n == Len(km.keys)
        marked == km.exhausted \cup {km.index}
        steps == {i \in 0..(n - 1) : ((km.index + 1 + i) % n) \notin marked}
    IN  IF steps = {}
        THEN [km |-> [km EXCEPT !.exhausted = marked, !.index = 0], ok |-> FALSE]
        ELSE LET i == CHOOSE k \in steps : \A j \in steps : k <= j
             IN  [km |-> [km EXCEPT !.exhausted = marked,
                                    !.index = (km.index + 1 + i) % n],
                  ok |-> TRUE]

rotate(km) ==
    LET n == Len(km.keys)
        marked == km.exhausted \cup {km.index}
        steps == {i \in 0..(n - 1) : ((km.index + 1 + i) % n) \notin marked}
    IN  IF steps = {}
        THEN [km |-> [km EXCEPT !.exhausted = marked], ok |-> FALSE]
        ELSE LET i == CHOOSE k \in steps : \A j \in steps : k <= j
             IN  [km |-> [km EXCEPT !.exhausted = marked,
                                    !.index = (km.index + 1 + i) % n],
                  ok |-> TRUE]

(***************************************************************************)
(* Helpers of paa.js.                                                      *)
(***************************************************************************)
NoUrl == [given |-> FALSE, parses |-> FALSE, hostname |-> <<>>]

BadUrl == [given |-> TRUE, parses |-> FALSE, hostname |-> <<>>]

UrlArgs == {NoUrl, BadUrl}
\* the url arguments of the calls: none, or one that new URL() rejects

extractDomain(url) ==
    IF ~url.parses THEN <<>>
    ELSE IF Len(url.hostname) >= 4 /\ SubSeq(url.hostname, 1, 4) = <<"w", "w", "w", ".">>
    THEN SubSeq(url.hostname, 5, Len(url.hostname))
    ELSE url.hostname
\* <<>> stands for the null of an unparsable url

buildQuery(keyword, url) ==
    IF ~url.given THEN keyword
    ELSE LET domain == extractDomain(url)
         IN  IF domain # <<>>
             THEN keyword \o <<" ", "s", "i", "t", "e", ":">> \o domain
             ELSE keyword

mapQuestion(item) ==
    [question |-> item.question,
     answer |-> "No answer available",
     link |-> ""]
\* the raw items of this model carry a question only

isLimitMessage(msg) ==
    LET errMsg == toLowerCase(msg)
    IN  \/ includes(errMsg, <<"l", "i", "m", "i", "t">>)
        \/ includes(errMsg, <<"q", "u", "o", "t", "a">>)
        \/ includes(errMsg, <<"e", "x", "c", "e", "e", "d", "e", "d">>)

\* mutant: every request carries the first key
requestFirstKey(query, region, km) ==
    [q |-> query, gl |-> region, keyIndex |-> 0, api_key |-> km.keys[1]]

request(query, region, km) ==
    [q |-> query, gl |-> region, keyIndex |-> km.index, api_key |-> current(km)]
\* the axios.get of fetchPAAPage, with the credential it carries

NoRequest == [q |-> <<>>, gl |-> "", keyIndex |-> -1, api_key |-> <<>>]


(***************************************************************************)
(* State.                                                                  *)
(***************************************************************************)
VARIABLES
    env,         \* process.env.SERPAPI_KEY
    keyManager,  \* the module-level singleton (Null before the first getPAA)
    frame,       \* frame[p]: the locals of caller p's running getPAA
    inflight,    \* inflight[p]: the upstream request p awaits, or NoRequest
    ret,         \* ret[p]: how p's last getPAA ended
    bulk,        \* bulk[p]: the locals of caller p's getBulkPAA
    hist,        \* hist[p]: what happened in p's current getPAA (history)
    rotations,   \* the rotate() calls of the process so far (history)
    http         \* http[p]: the HTTP handler serving request p

vars == <<env, keyManager, frame, inflight, ret, bulk, hist, rotations, http>>

NoFrame ==
    [pc |-> "idle", keyword |-> Undefined, region |-> "us", maxQuestions |-> 0,
     query |-> <<>>, seen |-> {}, results |-> <<>>, queue |-> <<>>,
     currentQuery |-> <<>>, rawQuestions |-> <<>>]

NoRet == [kind |-> "none", value |-> <<>>]

Returned(results) == [kind |-> "returned", value |-> results]

Thrown == [kind |-> "thrown", value |-> <<>>]

NoBulk == [pc |-> "idle", keywords |-> <<>>, i |-> 0, results |-> <<>>,
           region |-> "us", url |-> NoUrl, maxQuestions |-> 0]

NoHist ==
    [fetched |-> <<>>, nreq |-> 0, gotItems |-> FALSE, failed |-> FALSE,
     dups |-> FALSE, asGiven |-> TRUE, exhaustedBefore |-> {}, poolBefore |-> Null,
     signal |-> "none", enqueued |-> <<>>, call |-> <<>>]
\* fetched: the queries passed to fetchPAAPage, in order; nreq: the upstream
\* requests issued; gotItems: some fetchPAAPage returned a non-empty page;
\* failed: a fetchPAAPage threw; dups: an item was skipped as already seen;
\* asGiven: every fetchPAAPage so far returned the page GivenPages names for
\* its query; exhaustedBefore, poolBefore: the pool as the call found it;
\* signal: the kind of the last upstream response to the current
\* fetchPAAPage; call: the requests of the fetchPAAPage in progress and of
\* its retries; enqueued: the queries pushed on the queue, in order

NoResponse == [status |-> 0, body |-> [error |-> ""]]

NoBody ==
    [handler |-> "", method |-> "", keyword |-> Undefined, region |-> "", url |-> NoUrl]

NoHttp ==
    [pc |-> "idle", req |-> NoBody, safeRegion |-> "", appendCalls |-> <<>>,
     appendOk |-> FALSE, response |-> NoResponse]
\* req: the request (which handler serves it, its method, the fields of its
\* body); appendCalls: the arguments of the appendToSheet calls of the
\* request; appendOk: the last of them completed without error (history)

Item1(q) == [question |-> q]

\* the upstream of the breadth-first example: Q0 yields Q1, Q2 and Q1 yields Q3
GivenPages(query, page) ==
    /\ query = Q0 => page = <<Item1(Q1), Item1(Q2)>>
    /\ query = Q1 => page = <<Item1(Q3)>>

Init ==
    /\ env \in RawEnvs
    /\ keyManager = Null
    /\ frame = [p \in Requests |-> NoFrame]
    /\ inflight = [p \in Requests |-> NoRequest]
    /\ ret = [p \in Requests |-> NoRet]
    /\ bulk = [p \in Requests |-> NoBulk]
    /\ hist = [p \in Requests |-> NoHist]
    /\ rotations = [calls |-> 0, lastOk |-> FALSE, limited |-> {}]
    /\ http = [p \in Requests |-> NoHttp]

(***************************************************************************)
(* rotate() as called by fetchPAAPage, with the call recorded.             *)
(***************************************************************************)
Min(a, b) == IF a <= b THEN a ELSE b

Recorded(r) ==
    [rotations EXCEPT !.calls = Min(@ + 1, MaxKeys + 1), !.lastOk = r.ok]
\* the number of rotate() calls is counted up to MaxKeys + 1

\* the request p awaits was answered by a rate-limit signal
Limited(p, rot) ==
    [rot EXCEPT !.limited = @ \cup {inflight[p].keyIndex}]

(***************************************************************************)
(* getPAA.                                                                 *)
(***************************************************************************)
keywordInvalid(keyword) ==
    \/ keyword.type # "string"
    \/ keyword.str = <<>>
\* !keyword || typeof keyword !== "string"

\* mutant: the seed query enqueued twice
initialQueueTwice(query) ==
    <<query, query>>

initialQueue(query) ==
    <<query>>

Entry(p, keyword, region, url, maxQuestions) ==
    LET km == getKeyManager(keyManager, env)
    IN  /\ keyManager' = km
        /\ hist' = [hist EXCEPT ![p] =
                       [NoHist EXCEPT !.exhaustedBefore = km.exhausted,
                                      !.poolBefore = keyManager,
                                      !.enqueued =
                                          IF keywordInvalid(keyword) THEN <<>>
                                          ELSE initialQueue(
                                                   buildQuery(trim(keyword.str), url))]]
        /\ inflight' = [inflight EXCEPT ![p] = NoRequest]
        /\ IF keywordInvalid(keyword)
           THEN /\ frame' = [frame EXCEPT ![p] =
                                [NoFrame EXCEPT !.pc = "done", !.keyword = keyword,
                                                !.region = region,
                                                !.maxQuestions = maxQuestions]]
                /\ ret' = [ret EXCEPT ![p] = Thrown]
           ELSE LET query == buildQuery(trim(keyword.str), url)
                IN  /\ frame' = [frame EXCEPT ![p] =
                                    [NoFrame EXCEPT !.pc = "loop", !.keyword = keyword,
                                                    !.region = region,
                                                    !.maxQuestions = maxQuestions,
                                                    !.query = query,
                                                    !.queue = initialQueue(query)]]
                    /\ ret' = [ret EXCEPT ![p] = NoRet]
        /\ UNCHANGED <<env, rotations>>

\* mutant: the while loop tests the queue only
loopGuardNoCap(f) ==
    f.queue # <<>>

loopGuard(f) ==
    Len(f.results) < f.maxQuestions /\ f.queue # <<>>

\* mutant: the catch block rethrows
caughtRethrows(results) ==
    Thrown

caught(results) ==
    Returned(results)
\* the catch block of getPAA logs the error and returns results

\* One activation of fetchPAAPage(f.currentQuery, f.region, km), up to its
\* await.  km.current is read inside the try block: when it throws, the catch
\* of fetchPAAPage rethrows (no error.response) and getPAA's catch runs.
fetchPAAPage(p, f, h, km) ==
    IF currentThrows(km)
    THEN /\ frame' = [frame EXCEPT ![p] = [f EXCEPT !.pc = "done"]]
         /\ ret' = [ret EXCEPT ![p] = caught(f.results)]
         /\ inflight' = [inflight EXCEPT ![p] = NoRequest]
         /\ hist' = [hist EXCEPT ![p] = [h EXCEPT !.failed = TRUE]]
    ELSE /\ frame' = [frame EXCEPT ![p] = [f EXCEPT !.pc = "await"]]
         /\ ret' = ret
         /\ inflight' = [inflight EXCEPT ![p] = request(f.currentQuery, f.region, km)]
         /\ hist' = [hist EXCEPT ![p] =
                        [h EXCEPT !.nreq = @ + 1,
                                  !.call = Append(@, request(f.currentQuery,
                                                             f.region, km))]]

fetchReturns(p, h, rawQuestions) ==
    /\ frame' = [frame EXCEPT ![p].rawQuestions = rawQuestions,
                              ![p].pc = IF Len(rawQuestions) = 0 THEN "loop" ELSE "items"]
    /\ ret' = ret
    /\ inflight' = [inflight EXCEPT ![p] = NoRequest]
    /\ hist' = [hist EXCEPT ![p] =
                   [h EXCEPT !.call = <<>>,
                             !.gotItems = @ \/ Len(rawQuestions) # 0,
                             !.asGiven = @ /\ GivenPages(frame[p].currentQuery,
                                                         rawQuestions)]]
\* fetchPAAPage returns rawQuestions to the loop of getPAA

\* mutant: the catch block of fetchPAAPage returns [] and throws nothing
fetchThrowsNothing(p, h) ==
    fetchReturns(p, h, <<>>)

\* fetchPAAPage throws to getPAA, whose catch returns the results so far
fetchThrows(p, h) ==
    /\ frame' = [frame EXCEPT ![p].pc = "done"]
    /\ ret' = [ret EXCEPT ![p] = caught(frame[p].results)]
    /\ inflight' = [inflight EXCEPT ![p] = NoRequest]
    /\ hist' = [hist EXCEPT ![p] = [h EXCEPT !.failed = TRUE, !.call = <<>>]]

\* mutant: queue.pop() in the place of queue.shift()
shiftLast(queue) ==
    [first |-> queue[Len(queue)], rest |-> SubSeq(queue, 1, Len(queue) - 1)]

shift(queue) ==
    [first |-> Head(queue), rest |-> Tail(queue)]
\* const currentQuery = queue.shift()

Dequeue(p) ==
    /\ frame[p].pc = "loop"
    /\ loopGuard(frame[p])
    /\ LET next == shift(frame[p].queue)
           f == [frame[p] EXCEPT !.currentQuery = next.first, !.queue = next.rest]
           h == [hist[p] EXCEPT !.fetched = Append(@, f.currentQuery),
                                !.call = <<>>, !.signal = "none"]
       IN  fetchPAAPage(p, f, h, keyManager)
    /\ UNCHANGED <<env, keyManager, bulk, rotations, http>>

Return(p) ==
    /\ frame[p].pc = "loop"
    /\ ~loopGuard(frame[p])
    /\ frame' = [frame EXCEPT ![p].pc = "done"]
    /\ ret' = [ret EXCEPT ![p] = Returned(frame[p].results)]
    /\ UNCHANGED <<env, keyManager, inflight, bulk, hist, rotations, http>>

Signal(p, kind) ==
    [hist[p] EXCEPT !.signal = kind]

\* 200 with related_questions (or none: || [])
RespPage(p, page) ==
    /\ frame[p].pc = "await"
    /\ fetchReturns(p, Signal(p, "page"), page)
    /\ UNCHANGED <<env, keyManager, bulk, rotations, http>>

\* 200 whose data is not the documented object (a body that is not JSON is
\* handed over as a string): data.error and data.related_questions are
\* undefined
RespMalformed(p) ==
    /\ frame[p].pc = "await"
    /\ fetchReturns(p, Signal(p, "malformed"), <<>>)
    /\ UNCHANGED <<env, keyManager, bulk, rotations, http>>

\* 200 with response.data.error
RespBodyError(p, msg) ==
    /\ frame[p].pc = "await"
    /\ IF isLimitMessage(msg)
       THEN LET r == rotate(keyManager)
            IN  /\ keyManager' = r.km
                /\ rotations' = Limited(p, Recorded(r))
                /\ IF r.ok
                   THEN fetchPAAPage(p, frame[p], Signal(p, "limit"), r.km)
                   ELSE fetchReturns(p, Signal(p, "limit"), <<>>)
       ELSE /\ fetchReturns(p, Signal(p, "error"), <<>>)
            /\ UNCHANGED <<keyManager, rotations>>
    /\ UNCHANGED <<env, bulk, http>>

\* error.response.status === 429
Resp429(p) ==
    /\ frame[p].pc = "await"
    /\ LET r == rotate(keyManager)
       IN  /\ keyManager' = r.km
           /\ rotations' = Limited(p, Recorded(r))
           /\ IF r.ok
              THEN fetchPAAPage(p, frame[p], Signal(p, "429"), r.km)
              ELSE fetchThrows(p, Signal(p, "429"))
    /\ UNCHANGED <<env, bulk, http>>

\* any other rejection of axios.get: another status, a timeout, no network
RespFailure(p, kind) ==
    /\ frame[p].pc = "await"
    /\ kind \in OtherFailures
    /\ fetchThrows(p, Signal(p, kind))
    /\ UNCHANGED <<env, keyManager, bulk, rotations, http>>

\* mutant: seen.has(q) without the toLowerCase
collectCaseSensitive(f, item) ==
    LET q == item.question
    IN  IF q = <<>> \/ q \in f.seen
        THEN f
        ELSE LET pushed == Append(f.results, mapQuestion(item))
             IN  [f EXCEPT !.seen = @ \cup {toLowerCase(q)},
                           !.results = pushed,
                           !.queue = IF Len(pushed) < f.maxQuestions
                                     THEN Append(@, q) ELSE @]

\* mutant: seen.add left out
collectForgetsSeen(f, item) ==
    LET q == item.question
    IN  IF q = <<>> \/ toLowerCase(q) \in f.seen
        THEN f
        ELSE LET pushed == Append(f.results, mapQuestion(item))
             IN  [f EXCEPT !.results = pushed,
                           !.queue = IF Len(pushed) < f.maxQuestions
                                     THEN Append(@, q) ELSE @]

\* mutant: queue.push without the test of results.length
collectAlwaysEnqueues(f, item) ==
    LET q == item.question
    IN  IF q = <<>> \/ toLowerCase(q) \in f.seen
        THEN f
        ELSE LET pushed == Append(f.results, mapQuestion(item))
             IN  [f EXCEPT !.seen = @ \cup {toLowerCase(q)},
                           !.results = pushed,
                           !.queue = Append(@, q)]

\* the body of the for loop over rawQuestions, for one item
collect(f, item) ==
    LET q == item.question
    IN  IF q = <<>> \/ toLowerCase(q) \in f.seen
        THEN f
        ELSE LET pushed == Append(f.results, mapQuestion(item))
             IN  [f EXCEPT !.seen = @ \cup {toLowerCase(q)},
                           !.results = pushed,
                           !.queue = IF Len(pushed) < f.maxQuestions
                                     THEN Append(@, q) ELSE @]

Item(p) ==
    /\ frame[p].pc = "items"
    /\ LET item == Head(frame[p].rawQuestions)
           f == collect(frame[p], item)
           rest == Tail(frame[p].rawQuestions)
       IN  /\ frame' = [frame EXCEPT ![p] =
                           [f EXCEPT !.rawQuestions = rest,
                                     !.pc = IF rest = <<>> THEN "loop" ELSE "items"]]
           /\ hist' = [hist EXCEPT ![p].dups =
                           @ \/ (item.question # <<>> /\ f.results = frame[p].results),
                                   ![p].enqueued =
                           @ \o SubSeq(f.queue, Len(frame[p].queue) + 1, Len(f.queue))]
    /\ UNCHANGED <<env, keyManager, inflight, ret, bulk, rotations, http>>

\* a direct call of getPAA (index.js, server.js, api/paa.js)
Call(p) ==
    /\ frame[p].pc = "idle"
    /\ bulk[p].pc = "idle"
    /\ \E keyword \in KeywordArgs, region \in Regions, url \in UrlArgs,
          maxQuestions \in TargetArgs :
          Entry(p, keyword, region, url, maxQuestions)
    /\ UNCHANGED <<bulk, http>>

(***************************************************************************)
(* getBulkPAA.                                                             *)
(***************************************************************************)
BulkArgs ==
    {NotAnArray} \cup {Array(items) : items \in SeqsUpTo(BulkKeywordArgs, MaxKeywords)}

\* getBulkPAA up to the await of its first getPAA
BulkCall(p) ==
    /\ frame[p].pc = "idle"
    /\ bulk[p].pc = "idle"
    /\ \E keywords \in BulkArgs, region \in Regions, url \in UrlArgs,
          maxQuestions \in 0..MaxBulkTarget :
          IF ~keywords.isArray \/ Len(keywords.items) = 0
          THEN /\ bulk' = [bulk EXCEPT ![p].pc = "thrown"]
               /\ UNCHANGED <<env, keyManager, frame, inflight, ret, hist, rotations,
                              http>>
          ELSE /\ bulk' = [bulk EXCEPT ![p] =
                              [pc |-> "calling", keywords |-> keywords.items, i |-> 1,
                               results |-> <<>>, region |-> region, url |-> url,
                               maxQuestions |-> maxQuestions]]
               /\ Entry(p, keywords.items[1], region, url, maxQuestions)
               /\ UNCHANGED http

\* a getPAA of getBulkPAA has settled: store its list and go on, or let its
\* exception end getBulkPAA
BulkStep(p) ==
    /\ bulk[p].pc = "calling"
    /\ frame[p].pc = "done"
    /\ LET b == bulk[p]
       IN  IF ret[p].kind = "thrown"
           THEN /\ bulk' = [bulk EXCEPT ![p].pc = "thrown"]
                /\ UNCHANGED <<env, keyManager, frame, inflight, ret, hist, rotations,
                              http>>
           ELSE LET stored == (b.keywords[b.i].str :> ret[p].value) @@ b.results
                IN  IF b.i = Len(b.keywords)
                    THEN /\ bulk' = [bulk EXCEPT ![p].pc = "done",
                                                 ![p].results = stored]
                         /\ UNCHANGED <<env, keyManager, frame, inflight, ret, hist,
                                        rotations, http>>
                    ELSE /\ bulk' = [bulk EXCEPT ![p].i = b.i + 1,
                                                 ![p].results = stored]
                         /\ Entry(p, b.keywords[b.i + 1], b.region, b.url,
                                  b.maxQuestions)
                         /\ UNCHANGED http

(***************************************************************************)
(* The HTTP handlers: app.post("/api/paa") of server.js and the serverless *)
(* handler of api/paa.js.                                                  *)
(***************************************************************************)
DEFAULT_MAX_QUESTIONS == 12

validRegions == {"us", "in"}

safeRegion(region) ==
    IF region \in validRegions THEN region ELSE "us"

Handlers == {"server", "vercel"}

BodyKeywords ==
    {Undefined, NumberFive, Str(EmptyString), Str(Blank), Str(Q0), Str(PaddedQ1)}

BodyRegions == {"us", "fr"}

Bodies ==
    {b \in [handler : Handlers, method : {"POST", "GET"}, keyword : BodyKeywords,
            region : BodyRegions, url : UrlArgs] :
        b.handler = "server" => b.method = "POST"}
\* the express route is reached by POST only; the serverless handler is
\* reached by every method

ConcurrentBodies ==
    {b \in Bodies : /\ b.handler = "server"
                    /\ b.keyword = Str(Q0)
                    /\ b.region = "us"
                    /\ b.url = NoUrl}

falsy(v) ==
    \/ v.type = "undefined"
    \/ v.type = "string" /\ v.str = <<>>

Json(status, body) == [status |-> status, body |-> body]

ErrorBody(message) == [error |-> message]

Success(keyword, region, results) ==
    Json(200, [keyword |-> keyword, region |-> region, count |-> Len(results),
               results |-> results, sheetUpdated |-> TRUE])

\* mutant: no try around appendToSheet, its error reaches the outer catch
onSheetErrorFails(response) ==
    Json(500, ErrorBody("sheetErr.message"))

onSheetError(response) ==
    response
\* catch (sheetErr): logs, and the handler goes on to res.json

\* the handler up to its first await, or to its early return
Request(p, b) ==
    /\ http[p].pc = "idle"
    /\ frame[p].pc = "idle"
    /\ bulk[p].pc = "idle"
    /\ LET h == [NoHttp EXCEPT !.req = b, !.safeRegion = safeRegion(b.region)]
           Respond(response) ==
               /\ http' = [http EXCEPT ![p] = [h EXCEPT !.pc = "responded",
                                                        !.response = response]]
               /\ UNCHANGED <<env, keyManager, frame, inflight, ret, hist, rotations>>
       IN  IF b.handler = "vercel" /\ b.method # "POST"
           THEN Respond(Json(405, ErrorBody("Method not allowed")))
           ELSE IF falsy(b.keyword)
           THEN Respond(Json(400, ErrorBody("Keyword is required.")))
           ELSE IF b.keyword.type # "string"
           THEN \* keyword.trim is not a function: thrown before the try, the
                \* promise of the handler rejects and nothing is sent
                /\ http' = [http EXCEPT ![p] = [h EXCEPT !.pc = "rejected"]]
                /\ UNCHANGED <<env, keyManager, frame, inflight, ret, hist, rotations>>
           ELSE IF trim(b.keyword.str) = <<>>
           THEN Respond(Json(400, ErrorBody("Keyword is required.")))
           ELSE /\ http' = [http EXCEPT ![p] = [h EXCEPT !.pc = "getPAA"]]
                /\ Entry(p, Str(trim(b.keyword.str)), h.safeRegion, b.url,
                         DEFAULT_MAX_QUESTIONS)
    /\ UNCHANGED bulk

\* getPAA has settled: appendToSheet is called, or the outer catch answers
AfterGetPAA(p) ==
    /\ http[p].pc = "getPAA"
    /\ frame[p].pc = "done"
    /\ LET h == http[p]
       IN  IF ret[p].kind = "thrown"
           THEN http' = [http EXCEPT ![p].pc = "responded",
                                     ![p].response = Json(500, ErrorBody("err.message"))]
           ELSE http' = [http EXCEPT ![p].pc = "append",
                                     ![p].appendCalls =
                                         Append(@, [keyword |-> trim(h.req.keyword.str),
                                                    region |-> h.safeRegion,
                                                    url |-> h.req.url,
                                                    results |-> ret[p].value])]
    /\ UNCHANGED <<env, keyManager, frame, inflight, ret, bulk, hist, rotations>>

\* appendToSheet has settled (ok) or thrown (~ok): res.json
AppendSettles(p, ok) ==
    /\ http[p].pc = "append"
    /\ LET h == http[p]
           response == Success(h.req.keyword, h.safeRegion, ret[p].value)
       IN  http' = [http EXCEPT ![p].pc = "responded",
                                ![p].appendOk = ok,
                                ![p].response = IF ok THEN response
                                                ELSE onSheetError(response)]
    /\ UNCHANGED <<env, keyManager, frame, inflight, ret, bulk, hist, rotations>>

Handler(p, bodies) ==
    \/ \E b \in bodies : Request(p, b)
    \/ AfterGetPAA(p)
    \/ \E ok \in BOOLEAN : AppendSettles(p, ok)

(***************************************************************************)
(* Specifications.                                                         *)
(***************************************************************************)
Traversal(p, pages) ==
    \/ Dequeue(p)
    \/ Return(p)
    \/ \E page \in pages : RespPage(p, page)
    \/ RespMalformed(p)
    \/ \E msg \in ErrorMessages : RespBodyError(p, msg)
    \/ Resp429(p)
    \/ \E kind \in OtherFailures : RespFailure(p, kind)
    \/ Item(p)

Next ==
    \E p \in Procs : Call(p) \/ Traversal(p, Pages)

Spec == Init /\ [][Next]_vars
\* one process that calls getPAA once

NextBulk ==
    \E p \in Procs : BulkCall(p) \/ BulkStep(p) \/ Traversal(p, BulkPages)

SpecBulk == Init /\ [][NextBulk]_vars
\* one process that calls getBulkPAA once

ServerPages == BulkPages

NextServer ==
    \E p \in Procs : Handler(p, Bodies) \/ Traversal(p, ServerPages)

SpecServer == Init /\ [][NextServer]_vars
\* one process that serves one HTTP request

ConcurrentPages == {<<>>, <<Item1(Q1)>>}

NextConcurrent ==
    \E p \in Requests : Handler(p, ConcurrentBodies) \/ Traversal(p, ConcurrentPages)

SpecConcurrent == Init /\ [][NextConcurrent]_vars
\* one process that serves two HTTP requests, the second accepted while the
\* first awaits


(***************************************************************************)
(* Shorthands of the properties.                                           *)
(***************************************************************************)
Called(p) == frame[p].pc # "idle"

Done(p) == frame[p].pc = "done"

\* a keyword the contract of getPAA accepts: a string, non-empty once trimmed
ValidKeyword(keyword) ==
    keyword.type = "string" /\ trim(keyword.str) # <<>>

Questions(results) ==
    [i \in 1..Len(results) |-> results[i].question]

AllIndices(km) == 0..(Len(km.keys) - 1)

FullyExhausted(km) == AllIndices(km) \subseteq km.exhausted

(***************************************************************************)
(* C1.  For a non-empty keyword and maxQuestions N > 0, results never      *)
(* holds more than N records during the traversal, and neither does the    *)
(* list getPAA returns.                                                    *)
(* The code violates it: the for loop pushes every unseen item of a page   *)
(* and tests the cap only before enqueueing.                               *)
(***************************************************************************)
C1_ResultsWithinTarget ==
    \A p \in Procs :
        (Called(p) /\ ValidKeyword(frame[p].keyword) /\ frame[p].maxQuestions > 0)
        => /\ Len(frame[p].results) <= frame[p].maxQuestions
           /\ ret[p].kind = "returned" => Len(ret[p].value) <= frame[p].maxQuestions

(***************************************************************************)
(* C2.  At every point of a traversal no two records of results have the   *)
(* same question once lower-cased, and the lower-cased question of every   *)
(* record is in seen.                                                      *)
(***************************************************************************)
C2_NoDuplicateQuestions ==
    \A p \in Procs :
        LET r == frame[p].results
        IN  /\ \A i, j \in 1..Len(r) :
                   i # j => toLowerCase(r[i].question) # toLowerCase(r[j].question)
            /\ \A i \in 1..Len(r) : toLowerCase(r[i].question) \in frame[p].seen
            /\ ret[p].kind = "returned" => ret[p].value = r

\* a case variant of a recorded question was skipped and a later one recorded
C2_Witness ==
    \E p \in Procs :
        /\ hist[p].dups
        /\ Len(frame[p].results) >= 2
        /\ frame[p].results[1].question = Q1
        /\ toLowerCase(Q1) \in frame[p].seen
        /\ Q1 \notin frame[p].seen

(***************************************************************************)
(* C3.  When a fetchPAAPage throws during a traversal (a 429 with the pool *)
(* exhausted, another HTTP status, a network error, km.current throwing),  *)
(* getPAA does not throw: that step ends the call returning exactly the    *)
(* results accumulated so far, in order, with no request left in flight    *)
(* and none issued afterwards; when the seed's fetch is the one that       *)
(* throws, the list returned is empty.                                     *)
(***************************************************************************)
C3_PartialResultsOnFailure ==
    [][\A p \in Procs :
          /\ (~hist[p].failed /\ hist'[p].failed)
             => /\ frame[p].pc \in {"loop", "await"}
                /\ frame'[p].pc = "done"
                /\ ret'[p] = Returned(frame[p].results)
                /\ frame'[p].results = frame[p].results
                /\ inflight'[p] = NoRequest
                /\ hist'[p].nreq = hist[p].nreq
                /\ hist'[p].fetched = <<frame[p].query>> => ret'[p] = Returned(<<>>)
          /\ (hist[p].failed /\ hist'[p].failed)
             => /\ hist'[p].nreq = hist[p].nreq
                /\ inflight'[p] = NoRequest
                /\ frame'[p] = frame[p]
                /\ ret'[p] = ret[p]]_vars

\* a fetch failed with records collected and queries still waiting
C3_Witness ==
    \E p \in Procs :
        /\ hist[p].failed
        /\ hist[p].nreq >= 2
        /\ ret[p].kind = "returned"
        /\ Len(ret[p].value) >= 1
        /\ frame[p].queue # <<>>
        /\ Len(frame[p].results) < frame[p].maxQuestions

(***************************************************************************)
(* C4.  With a pool of zero credentials current() throws, and getPAA       *)
(* called with a valid keyword throws that error to its caller.            *)
(* The code violates it: the error is thrown inside fetchPAAPage, under    *)
(* the try of getPAA, whose catch returns the empty results.               *)
(***************************************************************************)
C4_NoCredentialsThrows ==
    \A p \in Procs :
        (/\ Done(p)
         /\ ValidKeyword(frame[p].keyword)
         /\ totalKeys(keyManager) = 0
         /\ hist[p].failed)
        => ret[p].kind = "thrown"

(***************************************************************************)
(* C5.  getPAA throws for every keyword that is not a string or is empty   *)
(* once trimmed, before any upstream request and with the pool left as it  *)
(* was.                                                                    *)
(* The code violates it for a keyword of whitespace only: the test runs    *)
(* before the trim.                                                        *)
(***************************************************************************)
C5_InvalidKeywordThrows ==
    \A p \in Procs :
        (Called(p) /\ ~ValidKeyword(frame[p].keyword))
        => /\ ret[p].kind = "thrown"
           /\ hist[p].nreq = 0
           /\ keyManager.index = 0
           /\ keyManager.exhausted = {}


(***************************************************************************)
(* C6.  In a pool of N >= 1 credentials, the k-th rotate() since the       *)
(* construction succeeds exactly when k < N: the first N - 1 calls         *)
(* succeed, the N-th fails and so does every later one; the index stays    *)
(* within 0..N-1.                                                          *)
(***************************************************************************)
C6_RotationOutcomes ==
    (keyManager # Null /\ totalKeys(keyManager) >= 1)
    => /\ keyManager.index \in AllIndices(keyManager)
       /\ keyManager.exhausted \subseteq AllIndices(keyManager)
       /\ rotations.calls >= 1
          => (rotations.lastOk <=> rotations.calls < totalKeys(keyManager))

\* a pool of 3 after its 4th rotate(): the 3rd failed and so did the 4th
C6_Witness ==
    /\ totalKeys(keyManager) = 3
    /\ rotations.calls = 4
    /\ ~rotations.lastOk
    /\ keyManager.exhausted = {0, 1, 2}

(***************************************************************************)
(* C7.  While some index is not exhausted the active index is not          *)
(* exhausted, and the request a fetchPAAPage awaits carries the active     *)
(* credential, whose index is not exhausted unless all indices are.        *)
(***************************************************************************)
C7_ActiveNotExhausted ==
    keyManager # Null
    => /\ ~FullyExhausted(keyManager) => keyManager.index \notin keyManager.exhausted
       /\ \A p \in Procs :
              inflight[p] # NoRequest
              => /\ inflight[p].keyIndex = keyManager.index
                 /\ inflight[p].api_key = keyManager.keys[inflight[p].keyIndex + 1]
                 /\ \/ inflight[p].keyIndex \notin keyManager.exhausted
                    \/ FullyExhausted(keyManager)

\* a retry in flight with the third credential after two rotations
C7_Witness ==
    \E p \in Procs :
        /\ inflight[p] # NoRequest
        /\ keyManager.exhausted = {0, 1}
        /\ inflight[p].keyIndex = 2
        /\ inflight[p].api_key = KeyName(3)

(***************************************************************************)
(* C8.  The exhausted set only grows and the pool is the same object from  *)
(* one getPAA of getBulkPAA to the next, so an index exhausted during an   *)
(* earlier keyword is still exhausted during a later one. As claimed: such *)
(* an index is never used for a request during a later keyword.            *)
(***************************************************************************)
ExhaustedOnlyGrows ==
    /\ keyManager.exhausted \subseteq keyManager'.exhausted
    /\ keyManager # Null => keyManager'.keys = keyManager.keys
    /\ \A p \in Procs :
           bulk'[p].pc = "calling"
           => hist'[p].exhaustedBefore \subseteq keyManager'.exhausted

\* p issues an upstream request in this step
Issues(p) ==
    hist'[p].nreq # hist[p].nreq /\ inflight'[p] # NoRequest

C8_StickyExhaustionNeverUsed ==
    [][/\ ExhaustedOnlyGrows
       /\ \A p \in Procs :
              (Issues(p) /\ bulk'[p].pc = "calling" /\ bulk'[p].i >= 2)
              => inflight'[p].keyIndex \notin hist'[p].exhaustedBefore]_vars

(***************************************************************************)
(* C8, amended.  As above, but an index exhausted during an earlier        *)
(* keyword is used for a request during a later keyword only when every    *)
(* index of the pool is exhausted.                                         *)
(***************************************************************************)
C8_StickyExhaustion ==
    [][/\ ExhaustedOnlyGrows
       /\ \A p \in Procs :
              (Issues(p) /\ bulk'[p].pc = "calling" /\ bulk'[p].i >= 2)
              => \/ inflight'[p].keyIndex \notin hist'[p].exhaustedBefore
                 \/ FullyExhausted(keyManager')]_vars

\* the second keyword's request goes out with the credential the first
\* keyword rotated to
C8_Witness ==
    \E p \in Procs :
        /\ bulk[p].pc = "calling"
        /\ bulk[p].i = 2
        /\ inflight[p] # NoRequest
        /\ hist[p].exhaustedBefore = {0}
        /\ keyManager.exhausted = {0}
        /\ inflight[p].keyIndex = 1

(***************************************************************************)
(* C9.  If every fetchPAAPage of a getPAA (maxQuestions > 0) returns zero  *)
(* items, getPAA returns the empty list without throwing, having fetched   *)
(* the seed query once and nothing else; with no rate-limit signal that    *)
(* is one upstream request.                                                *)
(***************************************************************************)
C9_EmptyUpstream ==
    \A p \in Procs :
        (/\ Done(p)
         /\ ValidKeyword(frame[p].keyword)
         /\ frame[p].maxQuestions > 0
         /\ ~hist[p].gotItems
         /\ ~hist[p].failed)
        => /\ ret[p] = Returned(<<>>)
           /\ hist[p].fetched = <<frame[p].query>>
           /\ rotations.calls = 0 => hist[p].nreq = 1

C9_Witness ==
    \E p \in Procs :
        /\ Done(p)
        /\ frame[p].query = Q0
        /\ frame[p].maxQuestions = 3
        /\ ~hist[p].gotItems
        /\ ~hist[p].failed
        /\ hist[p].nreq = 1
        /\ ret[p] = Returned(<<>>)

(***************************************************************************)
(* C10.  Seed query Q0 whose page yields Q1, Q2, Q1's page yields Q3,      *)
(* maxQuestions = 3. As claimed: the traversal fetches both Q1 and Q2 as   *)
(* queries, and both before Q3.                                            *)
(***************************************************************************)
GivenRun(p) ==
    /\ Done(p)
    /\ frame[p].query = Q0
    /\ frame[p].maxQuestions = 3
    /\ hist[p].asGiven
    /\ ~hist[p].failed

IndexOf(seq, x) ==
    IF \E i \in 1..Len(seq) : seq[i] = x
    THEN CHOOSE i \in 1..Len(seq) : seq[i] = x /\ \A j \in 1..(i - 1) : seq[j] # x
    ELSE 0

Fetched(p, query) == IndexOf(hist[p].fetched, query) # 0

FetchedBefore(p, a, b) ==
    Fetched(p, b) => (Fetched(p, a) /\ IndexOf(hist[p].fetched, a) < IndexOf(hist[p].fetched, b))

C10_BothFetchedBeforeQ3 ==
    \A p \in Procs :
        GivenRun(p)
        => /\ Fetched(p, Q1)
           /\ Fetched(p, Q2)
           /\ FetchedBefore(p, Q1, Q3)
           /\ FetchedBefore(p, Q2, Q3)

(***************************************************************************)
(* C10, amended.  In that run the traversal fetches Q0, then Q1, and       *)
(* stops there with the three records Q1, Q2, Q3: Q2 and Q3 are never      *)
(* fetched as queries, so Q3 is not fetched before Q1 or Q2.               *)
(***************************************************************************)
C10_StopsAtTarget ==
    \A p \in Procs :
        /\ GivenRun(p)
           => /\ hist[p].fetched = <<Q0, Q1>>
              /\ Questions(ret[p].value) = <<Q1, Q2, Q3>>
        /\ (frame[p].query = Q0 /\ frame[p].maxQuestions = 3 /\ hist[p].asGiven)
           => /\ FetchedBefore(p, Q1, Q3)
              /\ FetchedBefore(p, Q2, Q3)

C10_Witness ==
    \E p \in Procs :
        /\ GivenRun(p)
        /\ hist[p].fetched = <<Q0, Q1>>
        /\ Questions(ret[p].value) = <<Q1, Q2, Q3>>
        /\ frame[p].queue = <<Q2>>

(***************************************************************************)
(* Shorthands of the properties about one upstream response.               *)
(***************************************************************************)
\* this step is p's fetchPAAPage handling the response to its request
Answered(p) ==
    /\ frame[p].pc = "await"
    /\ \/ frame'[p].pc # "await"
       \/ hist'[p].nreq # hist[p].nreq

\* this step handles a rate-limit signal for p, and its rotate() failed
RotationFailed(p) ==
    /\ Answered(p)
    /\ hist'[p].signal \in {"429", "limit"}
    /\ ~rotations'.lastOk

(***************************************************************************)
(* C11.  When a rate-limit signal arrives and rotate() fails, the two      *)
(* kinds of signal end differently.  For a 429 fetchPAAPage throws: that   *)
(* step ends getPAA, which returns the results collected so far.  For a    *)
(* 200 with a limit/quota/exceeded message fetchPAAPage returns the empty  *)
(* list and throws nothing: getPAA is back at its loop test with results   *)
(* and queue as they were, so the next query of the queue is fetched.      *)
(***************************************************************************)
C11_SignalAsymmetry ==
    [][\A p \in Procs :
          RotationFailed(p)
          => /\ FullyExhausted(keyManager')
             /\ hist'[p].signal = "429"
                => /\ hist'[p].failed
                   /\ frame'[p].pc = "done"
                   /\ ret'[p] = Returned(frame[p].results)
                   /\ inflight'[p] = NoRequest
             /\ hist'[p].signal = "limit"
                => /\ ~hist'[p].failed
                   /\ frame'[p].pc = "loop"
                   /\ frame'[p].rawQuestions = <<>>
                   /\ frame'[p].results = frame[p].results
                   /\ frame'[p].queue = frame[p].queue
                   /\ ret'[p] = NoRet
                   /\ inflight'[p] = NoRequest]_vars

\* one key: the fetch of Q1 got a limit message and returned nothing, the
\* traversal went on to Q2, whose fetch got a 429 and ended the call
C11_Witness ==
    \E p \in Procs :
        /\ totalKeys(keyManager) = 1
        /\ rotations.calls = 2
        /\ hist[p].fetched = <<Q0, Q1, Q2>>
        /\ hist[p].signal = "429"
        /\ hist[p].failed
        /\ Questions(ret[p].value) = <<Q1, Q2>>

(***************************************************************************)
(* Shorthands of the properties about the handlers.                        *)
(***************************************************************************)
Responded(p) == http[p].pc = "responded"

\* a POST whose keyword is a string, non-empty once trimmed
ValidRequest(p) ==
    /\ http[p].req.method = "POST"
    /\ ValidKeyword(http[p].req.keyword)

(***************************************************************************)
(* C12.  In both handlers a POST with a valid keyword calls appendToSheet  *)
(* exactly once, after getPAA has settled, and whether that call completes *)
(* or throws the handler answers 200 with the keyword of the request, the  *)
(* safe region, and the list getPAA returned with its length as count.     *)
(***************************************************************************)
C12_SheetFailureDoesNotFail ==
    \A p \in Procs :
        ValidRequest(p)
        => /\ http[p].pc = "getPAA" => http[p].appendCalls = <<>>
           /\ http[p].pc \in {"append", "responded"}
              => /\ Len(http[p].appendCalls) = 1
                 /\ http[p].appendCalls[1].results = ret[p].value
           /\ Responded(p)
              => /\ http[p].response.status = 200
                 /\ http[p].response.body.keyword = http[p].req.keyword
                 /\ http[p].response.body.region = safeRegion(http[p].req.region)
                 /\ http[p].response.body.count = Len(ret[p].value)
                 /\ http[p].response.body.results = ret[p].value
                 /\ ret[p].kind = "returned"

\* appendToSheet threw after a collection of one record, for a padded
\* keyword and a region outside the list
C12_Witness ==
    \E p \in Procs :
        /\ Responded(p)
        /\ http[p].req.keyword = Str(PaddedQ1)
        /\ http[p].req.region = "fr"
        /\ ~http[p].appendOk
        /\ Len(http[p].appendCalls) = 1
        /\ http[p].response.status = 200
        /\ http[p].response.body.count = 1
        /\ http[p].response.body.region = "us"

(***************************************************************************)
(* C20.  In both handlers, a 200 response carries sheetUpdated = true only *)
(* if the appendToSheet call of that request completed without error.      *)
(* The code violates it: res.json is passed the literal sheetUpdated: true *)
(* after the catch that swallows the error of appendToSheet.               *)
(***************************************************************************)
C20_SheetUpdatedOnlyIfAppended ==
    \A p \in Procs :
        (/\ Responded(p)
         /\ http[p].response.status = 200
         /\ http[p].response.body.sheetUpdated)
        => /\ Len(http[p].appendCalls) = 1
           /\ http[p].appendOk

(***************************************************************************)
(* C13.  Within one getPAA the queries are fetched in the order in which   *)
(* they were enqueued: at every point the sequence of fetched queries is a *)
(* prefix of the sequence of enqueued queries, which starts with the seed  *)
(* query, and the queue holds exactly the enqueued queries not yet         *)
(* fetched, in order.                                                      *)
(***************************************************************************)
IsPrefix(a, b) ==
    Len(a) <= Len(b) /\ SubSeq(b, 1, Len(a)) = a

C13_FetchedInEnqueueOrder ==
    \A p \in Procs :
        (Called(p) /\ ~keywordInvalid(frame[p].keyword))
        => /\ IsPrefix(hist[p].fetched, hist[p].enqueued)
           /\ Head(hist[p].enqueued) = frame[p].query
           /\ hist[p].enqueued = hist[p].fetched \o frame[p].queue

\* Q1 was discovered before Q2 and is fetched while Q2 still waits
C13_Witness ==
    \E p \in Procs :
        /\ hist[p].enqueued = <<Q0, Q1, Q2>>
        /\ hist[p].fetched = <<Q0, Q1>>
        /\ frame[p].queue = <<Q2>>
        /\ frame[p].pc = "await"

(***************************************************************************)
(* C14.  Every rotate() adds the active index to exhausted and leaves the  *)
(* list of keys as it was.  If an index is then left outside exhausted,    *)
(* rotate() returns true and the new active index is the first such index  *)
(* met going forward circularly from the old index + 1.  Otherwise it      *)
(* returns false and the active index is unchanged, now in exhausted.      *)
(***************************************************************************)
\* this step is p's fetchPAAPage calling rotate()
Rotated(p) ==
    Answered(p) /\ hist'[p].signal \in {"429", "limit"}

\* the number of steps forward, circularly, from index a to index b: 1..n
Forward(a, b, n) ==
    ((b - a + n - 1) % n) + 1

C14_RotateEffect ==
    [][\A p \in Procs :
          Rotated(p)
          => LET n == totalKeys(keyManager)
                 marked == keyManager.exhausted \cup {keyManager.index}
                 next == keyManager'.index
             IN  /\ keyManager'.keys = keyManager.keys
                 /\ keyManager'.exhausted = marked
                 /\ IF marked # AllIndices(keyManager)
                    THEN /\ rotations'.lastOk
                         /\ next \in AllIndices(keyManager) \ marked
                         /\ \A j \in 1..(Forward(keyManager.index, next, n) - 1) :
                                ((keyManager.index + j) % n) \in marked
                    ELSE /\ ~rotations'.lastOk
                         /\ next = keyManager.index
                         /\ next \in keyManager'.exhausted]_vars

\* two keys: the first rotate() moved to index 1, the second one failed
\* and left the index there
C14_Witness ==
    \E p \in Procs :
        /\ totalKeys(keyManager) = 2
        /\ rotations.calls = 2
        /\ ~rotations.lastOk
        /\ keyManager.index = 1
        /\ keyManager.exhausted = {0, 1}
        /\ hist[p].signal = "limit"
        /\ frame[p].pc = "loop"

(***************************************************************************)
(* C15.  One fetchPAAPage with its retries issues at most as many upstream *)
(* requests as the pool has keys, all for the same query and region, no    *)
(* two with the same key; every response either ends the fetchPAAPage or   *)
(* is a rate-limit signal followed by a successful rotate(), which adds an *)
(* index not yet in exhausted to exhausted, and by one more request.  So   *)
(* the fetchPAAPage ends after at most as many responses as there are      *)
(* keys, even if every response is a rate-limit signal.                    *)
(***************************************************************************)
\* the requests of p's fetchPAAPage in progress
CallWithinPool(p) ==
    LET c == hist[p].call
    IN  /\ Len(c) <= totalKeys(keyManager)
        /\ \A i \in 1..Len(c) :
               /\ c[i].q = frame[p].currentQuery
               /\ c[i].gl = frame[p].region
               /\ c[i].api_key = keyManager.keys[c[i].keyIndex + 1]
        /\ \A i, j \in 1..Len(c) :
               i # j => c[i].keyIndex # c[j].keyIndex /\ c[i].api_key # c[j].api_key
        /\ \A i \in 1..(Len(c) - 1) : c[i].keyIndex \in keyManager.exhausted
        /\ frame[p].pc = "await" <=> c # <<>>
        /\ c # <<>> => c[Len(c)] = inflight[p]

C15_FetchTerminates ==
    [][\A p \in Procs :
          /\ CallWithinPool(p)'
          /\ Answered(p)
             => \/ frame'[p].pc # "await" /\ inflight'[p] = NoRequest
                \/ /\ Rotated(p)
                   /\ rotations'.lastOk
                   /\ keyManager.index \notin keyManager.exhausted
                   /\ keyManager.index \in keyManager'.exhausted
                   /\ Len(hist'[p].call) = Len(hist[p].call) + 1
                   /\ hist'[p].nreq = hist[p].nreq + 1]_vars

\* three keys, all three used by one fetchPAAPage for the second query
C15_Witness ==
    \E p \in Procs :
        /\ frame[p].pc = "await"
        /\ Len(hist[p].fetched) = 2
        /\ Len(hist[p].call) = 3
        /\ totalKeys(keyManager) = 3
        /\ {hist[p].call[i].keyIndex : i \in 1..3} = {0, 1, 2}
        /\ hist[p].nreq = 4

(***************************************************************************)
(* C16.  As claimed: a response that is neither a page nor a rate-limit    *)
(* signal (a 200 whose body is malformed, a 200 whose error message has    *)
(* none of limit, quota, exceeded, an HTTP error other than 429, a network *)
(* error or timeout) makes fetchPAAPage throw to getPAA, which ends there: *)
(* the pool is left as it was and no further query is fetched.             *)
(* The code violates it for the two 200 cases: fetchPAAPage returns [] and *)
(* the loop of getPAA goes on with the next query of the queue.            *)
(***************************************************************************)
OtherSignals == {"malformed", "error", "http500", "network"}

C16_OtherFailuresAreTerminal ==
    [][\A p \in Procs :
          /\ (Answered(p) /\ hist'[p].signal \in OtherSignals)
             => /\ hist'[p].failed
                /\ frame'[p].pc = "done"
                /\ ret'[p] = Returned(frame[p].results)
                /\ keyManager' = keyManager
          /\ hist[p].signal \in OtherSignals
             => /\ hist'[p].fetched = hist[p].fetched
                /\ hist'[p].nreq = hist[p].nreq]_vars

(***************************************************************************)
(* C17.  As claimed: within one getPAA no query text is fetched more than  *)
(* once, whatever the pages hold, a question equal to the seed query       *)
(* included.                                                               *)
(***************************************************************************)
C17_NoQueryFetchedTwice ==
    \A p \in Procs :
        \A i, j \in 1..Len(hist[p].fetched) :
            i # j => hist[p].fetched[i] # hist[p].fetched[j]

(***************************************************************************)
(* C17, amended.  The first query fetched is the seed query, which is not  *)
(* put in seen.  Every later query fetched is the question of a record of  *)
(* results, its lower-cased text is in seen, and no two of the later       *)
(* queries are equal once lower-cased.  So a text is fetched at most       *)
(* twice, and twice only when it is the seed query (up to letter case)     *)
(* coming back as a question of a page.                                    *)
(***************************************************************************)
C17_OnlySeedFetchedTwice ==
    \A p \in Procs :
        LET f == hist[p].fetched
        IN  /\ f # <<>> => Head(f) = frame[p].query
            /\ \A i \in 2..Len(f) :
                   /\ toLowerCase(f[i]) \in frame[p].seen
                   /\ \E k \in 1..Len(frame[p].results) :
                          frame[p].results[k].question = f[i]
            /\ \A i, j \in 2..Len(f) :
                   i # j => toLowerCase(f[i]) # toLowerCase(f[j])
            /\ \A i, j \in 1..Len(f) :
                   (i < j /\ toLowerCase(f[i]) = toLowerCase(f[j])) => i = 1

\* the seed query Q1 came back as a question and was fetched again
C17_Witness ==
    \E p \in Procs :
        /\ frame[p].keyword = Str(PaddedQ1)
        /\ frame[p].query = Q1
        /\ hist[p].fetched = <<Q1, Q1, Q2>>
        /\ Q1 \notin frame[p].seen

(***************************************************************************)
(* C18.  In every getPAA a question is enqueued only together with the     *)
(* record appended for it and only while results.length < maxQuestions     *)
(* after the append.  So the queries ever enqueued, seed included, number  *)
(* at most max(1, maxQuestions), the queue is never longer than            *)
(* results.length + 1, and at most maxQuestions queries are fetched: none  *)
(* when maxQuestions <= 0.  The traversal ends after that many fetches.    *)
(***************************************************************************)
Max(a, b) == IF a >= b THEN a ELSE b

TraversalBounds(p) ==
    /\ Len(hist[p].enqueued) <= Max(1, frame[p].maxQuestions)
    /\ Len(frame[p].queue) <= Len(frame[p].results) + 1
    /\ Len(hist[p].fetched) <= Max(0, frame[p].maxQuestions)
    /\ Len(hist[p].fetched) <= Len(hist[p].enqueued)
    /\ frame[p].maxQuestions <= 0 => hist[p].fetched = <<>> /\ hist[p].nreq = 0

C18_TraversalBounded ==
    [][\A p \in Procs :
          /\ TraversalBounds(p)'
          /\ (frame[p].pc = "items" /\ hist'[p].enqueued # hist[p].enqueued)
             => LET q == hist'[p].enqueued[Len(hist'[p].enqueued)]
                    n == Len(frame'[p].results)
                IN  /\ Len(hist'[p].enqueued) = Len(hist[p].enqueued) + 1
                    /\ n = Len(frame[p].results) + 1
                    /\ frame'[p].results[n].question = q
                    /\ n < frame[p].maxQuestions
          /\ (frame[p].pc = "loop" /\ frame'[p].pc = "done" /\ ~hist'[p].failed)
             => \/ frame[p].queue = <<>>
                \/ Len(frame[p].results) >= frame[p].maxQuestions]_vars

\* maxQuestions = 3: three queries were enqueued and all three fetched
C18_Witness ==
    \E p \in Procs :
        /\ Done(p)
        /\ frame[p].maxQuestions = 3
        /\ Len(hist[p].enqueued) = 3
        /\ Len(hist[p].fetched) = 3
        /\ frame[p].queue = <<>>
        /\ ~hist[p].failed

(***************************************************************************)
(* C19.  As claimed: an index is in exhausted only if a request issued     *)
(* with the key of that index was answered by a rate-limit signal, in      *)
(* every interleaving of the getPAA calls that share the pool, two         *)
(* requests served concurrently by server.js included.                     *)
(* The code violates it: rotate() marks the index that is active when the  *)
(* signal is handled, which is not the index of the request's key once     *)
(* another request has rotated in between.                                 *)
(***************************************************************************)
C19_ExhaustedOnlyIfLimited ==
    keyManager.exhausted \subseteq rotations.limited

=============================================================================
